---- MODULE Spec2Model ----
(***************************************************************************)
(* The random-number core of numba/targets/randomimpl.py: the two          *)
(* Mersenne-Twister generator states ("py" for the random module, "np"     *)
(* for numpy.random), the scalar primitives built on them, the gaussian    *)
(* cache, the bounded-range sampler and the distribution samplers.         *)
(*                                                                         *)
(* Representation.                                                         *)
(*  - A 32-bit word is the pair <<hi, lo>> of its 16-bit halves (TLC's     *)
(*    integers are 32-bit signed, a word is 32-bit unsigned).              *)
(*  - A floating-point value is a term: the formulas applied and the       *)
(*    integers they were applied to.  A double drawn from the engine is    *)
(*    the term of the two integers a and b that get_next_double combines.  *)
(*    Float parameters are rationals n/d, given in quarters.               *)
(*  - A floating-point comparison on a parameter is computed; one on a     *)
(*    value derived from drawn numbers is decided by an oracle bit, so     *)
(*    both outcomes are explored.                                          *)
(*  - The engine has N words; N stands for the source's 624, and the       *)
(*    twist offset M for 397, in the same proportion.  The range sampler   *)
(*    works on integers of IntWidth bits, which stand for the 64 of the    *)
(*    source's integer type.                                               *)
(*  - The functions numba_rnd_init, numba_rnd_shuffle and                  *)
(*    numba_poisson_ptrs are called by this file and defined in            *)
(*    _helperlib.c; they are modelled after MT19937 and after what the     *)
(*    specification says of seeding.                                       *)
(*                                                                         *)
(* Four specifications share the actions, one per registered function:    *)
(* Spec runs seed, random, gauss and getrandbits on both streams for       *)
(* MaxCalls calls from the state the module is loaded in; SpecLib makes    *)
(* one call of any registered function from the states a stream is in      *)
(* after a seed, after a draw and with a gaussian cached; SpecRange makes  *)
(* one call of a range operation on every start, stop and step of the      *)
(* integer type; SpecWords makes one call of random, getrandbits,          *)
(* hypergeometric or shuffle on states that hold the extreme words.  Every *)
(* call is made by a first run and, in mode "both", by a second run of the *)
(* program as well.  A fifth specification, SpecLoop, steps through the    *)
(* rejection loop of the range sampler one iteration at a time, under      *)
(* fair draws.                                                             *)
(***************************************************************************)
EXTENDS Integers, Sequences, FiniteSets, TLC

VARIABLES mem, twin, sync, call, budget

vars == <<mem, twin, sync, call, budget>>

-----------------------------------------------------------------------------
(* Bounds of the model. *)

\* Number of words of the generator state (624 in the source).
N == 4
\* Seeds are 1..NumSeeds.
NumSeeds == 2
\* Calls per behaviour.
MaxCalls == 3
\* Oracle bits (floating-point comparisons on drawn values) per call.
MaxFlips == 3
\* Width in bits of the integer type of randrange's arguments.
IntWidth == 4
\* Draws after the first in one rejection loop of the range sampler.
MaxRedraws == 3

-----------------------------------------------------------------------------
(* 32-bit words as <<hi, lo>>. *)

Pow2(k) == 2^k

H16 == 2^16

U32(k) == <<k \div H16, k % H16>>

RECURSIVE XorBits(_, _)
XorBits(a, b) == IF a = 0 THEN b
                 ELSE IF b = 0 THEN a
                 ELSE 2 * XorBits(a \div 2, b \div 2) + ((a + b) % 2)

\* Exclusive or of two 4-bit values, tabulated.
Xor4 == [a \in 0..15 |-> [b \in 0..15 |-> XorBits(a, b)]]

Xor8(a, b) == Xor4[a \div 16][b \div 16] * 16 + Xor4[a % 16][b % 16]

Xor16(a, b) == Xor8(a \div 256, b \div 256) * 256 + Xor8(a % 256, b % 256)

\* a + b = (a xor b) + 2 * (a and b)
And16(a, b) == (a + b - Xor16(a, b)) \div 2

xor(a, b) == <<Xor16(a[1], b[1]), Xor16(a[2], b[2])>>

and_(a, b) == <<And16(a[1], b[1]), And16(a[2], b[2])>>

\* Logical shift right by 0 <= k <= 31.
lshr(y, k) ==
    IF k = 0 THEN y
    ELSE IF k < 16
         THEN <<y[1] \div Pow2(k),
                (y[2] \div Pow2(k)) + (y[1] % Pow2(k)) * Pow2(16 - k)>>
         ELSE <<0, y[1] \div Pow2(k - 16)>>

\* Shift left by 0 <= k <= 31, the bits shifted out of the word dropped.
shl(y, k) ==
    IF k = 0 THEN y
    ELSE IF k < 16
         THEN <<(y[1] % Pow2(16 - k)) * Pow2(k) + (y[2] \div Pow2(16 - k)),
                (y[2] % Pow2(16 - k)) * Pow2(k)>>
         ELSE <<(y[2] % Pow2(32 - k)) * Pow2(k - 16), 0>>

\* (a * b) div 2^16 and (a * b) mod 2^16 of two 16-bit values.
Mul16(a, b) ==
    LET a0 == a % 256
        a1 == a \div 256
        p0 == a0 * b
        p1 == a1 * b
        s  == p0 + (p1 % 256) * 256
    IN  <<(s \div H16) + (p1 \div 256), s % H16>>

\* (a * b) mod 2^32.
mul32(a, b) ==
    LET ll == Mul16(a[2], b[2])
        hl == Mul16(a[1], b[2])[2]
        lh == Mul16(a[2], b[1])[2]
    IN  <<(ll[1] + hl + lh) % H16, ll[2]>>

\* (a + b) mod 2^32.
add32(a, b) ==
    LET l == a[2] + b[2]
    IN  <<(a[1] + b[1] + (l \div H16)) % H16, l % H16>>

-----------------------------------------------------------------------------
(* The generator state and the two helpers of _helperlib.c. *)

Streams == {"py", "np"}

StateNames == {"numba_py_random_state", "numba_np_random_state"}

SeedValues == 1..NumSeeds

\* The double 0.0.
FZero == [op |-> <<"const">>, in |-> <<0, 1>>]

\* Twist offset (397 for 624 words).
M == (N * 397) \div 624

MATRIX_A == <<\h9908, \hb0df>>

INIT_MULT == <<\h6c07, \h8965>>

RECURSIVE init_genrand(_, _, _)
init_genrand(mt, pos, seed) ==
    IF pos = N THEN mt
    ELSE init_genrand([mt EXCEPT ![pos] = seed], pos + 1,
                      add32(mul32(INIT_MULT, xor(seed, lshr(seed, 30))),
                            U32(pos + 1)))

\* numba_rnd_init(state, seed): the MT19937 seeding recurrence; index is
\* left at N, so that the first draw reshuffles, and the gaussian cache is
\* marked empty.
numba_rnd_init(st, seed) ==
    [st EXCEPT !.index = N,
               !.array = init_genrand(st.array, 0, U32(seed)),
               !.has_gauss = 0]

\* The word that replaces mt[i]: y holds the top bit of mt[i] and the low
\* 31 bits of mt[i + 1], mk is mt[i + M].
twist_mix(y, mk) ==
    IF y[2] % 2 = 1
    THEN xor(xor(mk, lshr(y, 1)), MATRIX_A)
    ELSE xor(mk, lshr(y, 1))

twist_word(mt, i) ==
    twist_mix(<<(mt[i][1] \div 32768) * 32768 + (mt[(i + 1) % N][1] % 32768),
                mt[(i + 1) % N][2]>>,
              mt[(i + M) % N])

RECURSIVE genrand_twist(_, _)
genrand_twist(mt, i) ==
    IF i = N THEN mt
    ELSE genrand_twist([mt EXCEPT ![i] = twist_word(mt, i)], i + 1)

\* numba_rnd_shuffle(state): regenerates every word in place.
numba_rnd_shuffle(st) ==
    [st EXCEPT !.array = genrand_twist(st.array, 0), !.index = 0]


-----------------------------------------------------------------------------
(* Floating-point terms: the formula applied and the integers it was       *)
(* applied to.                                                             *)

\* The number n/d, d > 0: a parameter or a literal.
FConst(n, d) == [op |-> <<"const">>, in |-> <<n, d>>]

\* A float parameter given in quarters.
Q(q) == FConst(q, 4)

\* +inf.
FInf == [op |-> <<"inf">>, in |-> <<>>]

IsConst(x) == x.op = <<"const">>

Num(x) == x.in[1]

Den(x) == x.in[2]

\* The double (a * 2^26 + b) / 2^53.
FRand(a, b) == [op |-> <<"(a*67108864.0+b)/9007199254740992.0">>, in |-> <<a, b>>]

\* The largest and the smallest double that get_next_double returns:
\* 1.0 - 2^-53 and 0.0.
FRandMax == FRand(2^27 - 1, 2^26 - 1)

FRandMin == FRand(0, 0)

F1(name, x) == [op |-> <<name>> \o x.op, in |-> x.in]

F2(name, x, y) == [op |-> <<name>> \o x.op \o y.op, in |-> x.in \o y.in]

F3(name, x, y, z) ==
    [op |-> <<name>> \o x.op \o y.op \o z.op, in |-> x.in \o y.in \o z.in]

F4(name, x, y, z, t) ==
    [op |-> <<name>> \o x.op \o y.op \o z.op \o t.op,
     in |-> x.in \o y.in \o z.in \o t.in]

\* An integer result, an array result and no result.
FInt(v) == [op |-> <<"int">>, in |-> <<v>>]

FArray(arr) == [op |-> <<"array">>, in |-> arr]

FNone == [op |-> <<"None">>, in |-> <<>>]

-----------------------------------------------------------------------------
(* The evaluation context of one call: the memory holding both generator   *)
(* states, the oracle bits left, the words drawn and the accesses to the   *)
(* gaussian cache so far.                                                  *)

NewCtx(m, fl) ==
    [mem |-> m, flips |-> fl, words |-> <<>>, cache |-> <<>>, stuck |-> FALSE]

\* The outcome of a floating-point comparison on drawn values.  Every
\* oracle bit is asked in the sense that ends a loop, so that an exhausted
\* oracle (which answers TRUE and marks the context stuck) ends the call.
Flip(c) ==
    IF c.flips = <<>>
    THEN [c |-> [c EXCEPT !.stuck = TRUE], v |-> TRUE]
    ELSE [c |-> [c EXCEPT !.flips = Tail(@)], v |-> Head(c.flips)]

Stuck(c) == [c EXCEPT !.stuck = TRUE]

\* What a call returns: the context, the status and the value.
Ok(c, v) == [c |-> c, status |-> "OK", v |-> v]

Raise(c, e) == [c |-> c, status |-> e, v |-> FNone]

\* Evaluates x, then continues with its value.
Bind(x, F(_)) == F(x)

\* Continues with the value of a call that returned, and returns what a
\* call that raised returned.
Try(r, F(_)) == IF r.status = "OK" THEN F(r) ELSE r

-----------------------------------------------------------------------------
(* Accessors and scalar primitives. *)

ToInt(w) == w[1] * H16 + w[2]

get_py_state_ptr == "numba_py_random_state"

get_np_state_ptr == "numba_np_random_state"

\* A variant of get_state_ptr that hands every caller the state of the
\* Python stream.
get_state_ptr_shared(name) == get_py_state_ptr

get_state_ptr(name) ==
    IF name = "py" THEN get_py_state_ptr ELSE get_np_state_ptr

\* The word at array[idx]; the struct lays has_gauss out right after the
\* array.
load_word(st, idx) == IF idx < N THEN st.array[idx] ELSE U32(st.has_gauss)

\* Tempering
temper1(y) == xor(y, lshr(y, 11))

temper2(y) == xor(y, and_(shl(y, 7), <<\h9d2c, \h5680>>))

temper3(y) == xor(y, and_(shl(y, 15), <<\hefc6, 0>>))

temper4(y) == xor(y, lshr(y, 18))

temper(y) == temper4(temper3(temper2(temper1(y))))

\* A variant of reshuffle_if_needed that compares with > instead of >=.
reshuffle_if_needed_late(st0) ==
    IF st0.index > N
    THEN [st |-> [numba_rnd_shuffle(st0) EXCEPT !.index = 0], reshuffled |-> TRUE]
    ELSE [st |-> st0, reshuffled |-> FALSE]

\* The reshuffle of a state whose index has reached N.
reshuffle_if_needed(st0) ==
    IF st0.index >= N
    THEN [st |-> [numba_rnd_shuffle(st0) EXCEPT !.index = 0], reshuffled |-> TRUE]
    ELSE [st |-> st0, reshuffled |-> FALSE]

\* The load of array[idx] and the store of idx + 1.
load_and_advance(c, state_ptr, f) ==
    [c |-> [c EXCEPT !.mem[state_ptr] = [f.st EXCEPT !.index = f.st.index + 1],
                     !.words = Append(@, [ptr |-> state_ptr,
                                          before |-> c.mem[state_ptr].index,
                                          reshuffled |-> f.reshuffled,
                                          read |-> f.st.index,
                                          after |-> f.st.index + 1])],
     v |-> temper(load_word(f.st, f.st.index))]

get_next_int32(c, state_ptr) ==
    load_and_advance(c, state_ptr, reshuffle_if_needed(c.mem[state_ptr]))

\* A variant of get_next_double that shifts the first word by 4.
get_next_double_shift4(c, state_ptr) ==
    Bind(get_next_int32(c, state_ptr), LAMBDA a :
    Bind(get_next_int32(a.c, state_ptr), LAMBDA b :
        [c |-> b.c, v |-> FRand(ToInt(lshr(a.v, 4)), ToInt(lshr(b.v, 6)))]))

get_next_double(c, state_ptr) ==
    Bind(get_next_int32(c, state_ptr), LAMBDA a :
    Bind(get_next_int32(a.c, state_ptr), LAMBDA b :
        [c |-> b.c, v |-> FRand(ToInt(lshr(a.v, 5)), ToInt(lshr(b.v, 6)))]))

\* get_shifted_int: the top nbits bits of the next word, 1 <= nbits <= 32.
get_shifted_int(c, state_ptr, nbits) ==
    Bind(get_next_int32(c, state_ptr), LAMBDA y :
        [c |-> y.c, v |-> lshr(y.v, 32 - nbits)])

\* A variant of get_next_int that takes the first word for the high part.
get_next_int_swapped(c, state_ptr, nbits) ==
    IF nbits <= 32
    THEN Bind(get_shifted_int(c, state_ptr, nbits), LAMBDA low :
             [c |-> low.c, v |-> <<U32(0), low.v>>])
    ELSE Bind(get_next_int32(c, state_ptr), LAMBDA low :
         Bind(get_shifted_int(low.c, state_ptr, nbits - 32), LAMBDA high :
             [c |-> high.c, v |-> <<low.v, high.v>>]))

\* The next integer of nbits bits, 1 <= nbits <= 64, as the pair of the
\* high and the low 32-bit word of the 64-bit result.
get_next_int(c, state_ptr, nbits) ==
    IF nbits <= 32
    THEN Bind(get_shifted_int(c, state_ptr, nbits), LAMBDA low :
             [c |-> low.c, v |-> <<U32(0), low.v>>])
    ELSE Bind(get_next_int32(c, state_ptr), LAMBDA low :
         Bind(get_shifted_int(low.c, state_ptr, nbits - 32), LAMBDA high :
             [c |-> high.c, v |-> <<high.v, low.v>>]))

-----------------------------------------------------------------------------
(* seed, random, gauss, getrandbits. *)

\* A variant of _seed_impl that leaves the has_gauss flag as it was.
_seed_impl_keeps_cache(c, seed_value, state_ptr) ==
    Ok([c EXCEPT !.mem[state_ptr] =
           [numba_rnd_init(c.mem[state_ptr], seed_value)
               EXCEPT !.has_gauss = c.mem[state_ptr].has_gauss]],
       FNone)

_seed_impl(c, seed_value, state_ptr) ==
    Ok([c EXCEPT !.mem[state_ptr] = numba_rnd_init(@, seed_value)], FNone)

py_seed_impl(c, seed_value) == _seed_impl(c, seed_value, get_state_ptr("py"))

np_seed_impl(c, seed_value) == _seed_impl(c, seed_value, get_state_ptr("np"))

random_impl(c, state) ==
    Bind(get_next_double(c, get_state_ptr(state)), LAMBDA r : Ok(r.c, r.v))

py_random_impl(c) == random_impl(c, "py")

np_random_impl(c) == random_impl(c, "np")

\* A call of random.random or np.random.random from a compiled function.
call_random(c, _random) ==
    random_impl(c, IF _random = "random.random" THEN "py" ELSE "np")

\* compute_gauss_pair: the loop ends when r2 < 1.0 and r2 != 0.0.
RECURSIVE compute_gauss_pair(_, _)
compute_gauss_pair(c, _random) ==
    Bind(call_random(c, _random), LAMBDA x1 :
    Bind(call_random(x1.c, _random), LAMBDA x2 :
    Bind(Flip(x2.c), LAMBDA inside :
        IF inside.v
        THEN Ok(inside.c, <<F2("f*x1", x1.v, x2.v), F2("f*x2", x1.v, x2.v)>>)
        ELSE compute_gauss_pair(inside.c, _random))))

\* An access to the gaussian cache.
CacheEvent(c, name, state_ptr, val) ==
    [c EXCEPT !.cache = Append(@, [op |-> name, ptr |-> state_ptr, val |-> val])]

\* A variant of load_has_gauss that always finds the flag clear.
load_has_gauss_blind(c, state_ptr) ==
    [c |-> CacheEvent(c, "load has_gauss", state_ptr, 0), v |-> 0]

load_has_gauss(c, state_ptr) ==
    [c |-> CacheEvent(c, "load has_gauss", state_ptr, c.mem[state_ptr].has_gauss),
     v |-> c.mem[state_ptr].has_gauss]

load_gauss(c, state_ptr) ==
    [c |-> CacheEvent(c, "load gauss", state_ptr, c.mem[state_ptr].gauss),
     v |-> c.mem[state_ptr].gauss]

\* A variant of store_has_gauss that sets the flag whatever it is given.
store_has_gauss_sets(c, state_ptr, val) ==
    CacheEvent([c EXCEPT !.mem[state_ptr].has_gauss = 1],
               "store has_gauss", state_ptr, 1)

store_has_gauss(c, state_ptr, val) ==
    CacheEvent([c EXCEPT !.mem[state_ptr].has_gauss = val],
               "store has_gauss", state_ptr, val)

store_gauss(c, state_ptr, val) ==
    CacheEvent([c EXCEPT !.mem[state_ptr].gauss = val],
               "store gauss", state_ptr, val)

_gauss_impl(c, mu, sigma, state) ==
    Bind(get_state_ptr(state), LAMBDA state_ptr :
    Bind(load_has_gauss(c, state_ptr), LAMBDA has_gauss :
        IF has_gauss.v # 0
        THEN \* if has_gauss: return it
             Bind(load_gauss(has_gauss.c, state_ptr), LAMBDA ret :
                 Ok(store_has_gauss(ret.c, state_ptr, 0),
                    F3("mu+sigma*", mu, sigma, ret.v)))
        ELSE \* compute a pair; keep one and return the other
             Bind(compute_gauss_pair(has_gauss.c,
                                     IF state = "py" THEN "random.random"
                                     ELSE "np.random.random"), LAMBDA pair :
                 Ok(store_has_gauss(store_gauss(pair.c, state_ptr, pair.v[1]),
                                    state_ptr, 1),
                    F3("mu+sigma*", mu, sigma, pair.v[2])))))

gauss_impl(c, mu, sigma) == _gauss_impl(c, mu, sigma, "py")

\* The arguments given, then the defaults of those that are missing.
_fill_defaults(args, defaults) ==
    args \o SubSeq(defaults, Len(args) + 1, Len(defaults))

\* np.random.normal and its aliases, with 0, 1 or 2 arguments.
np_gauss_impl(c, args) ==
    Bind(_fill_defaults(args, <<FConst(0, 1), FConst(1, 1)>>), LAMBDA a :
        _gauss_impl(c, a[1], a[2], "np"))

\* The 64-bit result as a term: its high and low words, each in halves.
FInt64(r) == [op |-> <<"int64">>, in |-> r[1] \o r[2]]

getrandbits_impl(c, nbits) ==
    Bind(get_next_int(c, get_state_ptr("py"), nbits), LAMBDA r :
        Ok(r.c, FInt64(r.v)))

-----------------------------------------------------------------------------
(* The bounded-range sampler, on integers of IntWidth bits. *)

IntMin == -(2^(IntWidth - 1))

IntMax == 2^(IntWidth - 1) - 1

Ints == IntMin..IntMax

\* Two's-complement wrap-around of the integer type.
Wrap(x) == ((x - IntMin) % 2^IntWidth) + IntMin

Abs(x) == IF x < 0 THEN -x ELSE x

\* Signed division is undefined for a zero divisor and for IntMin / -1.
sdiv_undefined(a, b) == b = 0 \/ (a = IntMin /\ b = -1)

\* Signed division, truncating toward zero; ub is the outcome where the
\* division is undefined.
sdiv(a, b, ub) ==
    IF sdiv_undefined(a, b) THEN ub.v
    ELSE IF (a < 0) # (b < 0) THEN -(Abs(a) \div Abs(b))
    ELSE Abs(a) \div Abs(b)

RECURSIVE BitLength(_)
BitLength(n) == IF n = 0 THEN 0 ELSE 1 + BitLength(n \div 2)

\* llvm.ctlz on a nonzero n; the sign bit of a negative n is set.
ctlz(n) == IF n < 0 THEN 0 ELSE IntWidth - BitLength(n)

\* The low IntWidth bits of a 64-bit value, as a signed integer.
trunc(r) ==
    Wrap(IF IntWidth <= 16
         THEN r[2][2] % 2^IntWidth
         ELSE (r[2][1] % 2^(IntWidth - 16)) * H16 + r[2][2])

\* The while loop of _randrange_impl; redraws counts the draws left to
\* the model.
RECURSIVE randrange_loop(_, _, _, _, _)
randrange_loop(c, state_ptr, nbits, n, redraws) ==
    Bind(get_next_int(c, state_ptr, nbits), LAMBDA r :
        IF trunc(r.v) >= n      \* too_large
        THEN IF redraws = 0
             THEN [c |-> Stuck(r.c), v |-> trunc(r.v)]
             ELSE randrange_loop(r.c, state_ptr, nbits, n, redraws - 1)
        ELSE [c |-> r.c, v |-> trunc(r.v)])

\* n = stop - start, then n = (n + step + 1) // step for step < 0
after_negative_step(start, stop, step, ub) ==
    IF step < 0
    THEN sdiv(Wrap(Wrap(Wrap(stop - start) + step) + 1), step, ub)
    ELSE Wrap(stop - start)

\* The element count n that _randrange_impl computes: for step > 1,
\* n = (n + step - 1) // step
randrange_n(start, stop, step, ub) ==
    IF step > 1
    THEN sdiv(Wrap(Wrap(after_negative_step(start, stop, step, ub) + step) - 1),
              step, ub)
    ELSE after_negative_step(start, stop, step, ub)

\* Whether computing n divides where the division is undefined.
randrange_undefined(start, stop, step) ==
    step < 0 /\ sdiv_undefined(Wrap(Wrap(Wrap(stop - start) + step) + 1), step)

\* A variant of empty_range that takes n for unsigned.
empty_range_zero_only(n) == n = 0

\* icmp_signed('<=', n, zero)
empty_range(n) == n <= 0

_randrange_impl(c, start, stop, step, state, ub) ==
    IF randrange_undefined(start, stop, step) /\ ub.trap
    THEN Raise(c, "SIGFPE")
    ELSE Bind(randrange_n(start, stop, step, ub), LAMBDA n :
        IF empty_range(n)
        THEN \* n <= 0 => ValueError
             Raise(c, "RUNTIME_ERROR")
        ELSE Bind(randrange_loop(c, get_state_ptr(state), IntWidth - ctlz(n),
                                 n, MaxRedraws), LAMBDA r :
                 Ok(r.c, FInt(Wrap(start + Wrap(r.v * step))))))

randrange_impl_1(c, stop, ub) == _randrange_impl(c, 0, stop, 1, "py", ub)

randrange_impl_2(c, start, stop, ub) ==
    _randrange_impl(c, start, stop, 1, "py", ub)

randrange_impl_3(c, start, stop, step, ub) ==
    _randrange_impl(c, start, stop, step, "py", ub)

randint_impl_1(c, start, stop, ub) ==
    _randrange_impl(c, start, Wrap(stop + 1), 1, "py", ub)

randint_impl_2(c, stop, ub) == _randrange_impl(c, 0, stop, 1, "np", ub)

np_randrange_impl_2(c, start, stop, ub) ==
    _randrange_impl(c, start, stop, 1, "np", ub)

\* The outcomes of an undefined division: a trap, or any value.
UBOutcomes == {[trap |-> TRUE, v |-> 0]} \cup {[trap |-> FALSE, v |-> x] : x \in Ints}

NoUB == [trap |-> FALSE, v |-> 0]

UB(start, stop, step) ==
    IF randrange_undefined(start, stop, step) THEN UBOutcomes ELSE {NoUB}

-----------------------------------------------------------------------------
(* Comparisons of floats.  On parameters they are computed; on values      *)
(* derived from drawn numbers they are decided by the oracle.              *)

\* x <= 0.0
FLe0(x) == IsConst(x) /\ Num(x) <= 0

\* x < 0.0
FLt0(x) == IsConst(x) /\ Num(x) < 0

\* x == 0.0
FEq0(x) == IsConst(x) /\ Num(x) = 0

\* x * beta for a drawn x > 0.0 that is computed as the term t: +inf when
\* beta is.
TimesBeta(t, beta) == IF beta = FInf THEN FInf ELSE t

\* x > 1.0
FGt1(x) == x = FInf \/ (IsConst(x) /\ Num(x) > Den(x))

\* x == 1.0
FEq1(x) == IsConst(x) /\ Num(x) = Den(x)

\* x == y
FEq(x, y) == Num(x) * Den(y) = Num(y) * Den(x)

\* x >= 0.333333333333333333333333
FGeThird(x) == 3 * Num(x) >= Den(x)

\* x >= 10.0
FGe10(x) == x = FInf \/ (IsConst(x) /\ Num(x) >= 10 * Den(x))

\* x <= 1e-6
FTiny(x) == Num(x) * 1000000 <= Den(x)

\* x / 2.0
FHalf(x) == FConst(Num(x), 2 * Den(x))

\* A comparison that is computed on a parameter and asked of the oracle on
\* a drawn value.
Decide(c, x, onConst) ==
    IF IsConst(x) \/ x = FInf THEN [c |-> c, v |-> onConst] ELSE Flip(c)

\* What a float division by zero does: the Python error model raises
\* ZeroDivisionError, the NumPy error model yields an infinity.
DivByZero == {"raise", "inf"}

-----------------------------------------------------------------------------
(* The distributions. *)

uniform_impl(c, a, b, state) ==
    Bind(get_next_double(c, get_state_ptr(state)), LAMBDA r :
        Ok(r.c, F3("a+(b-a)*r", a, b, r.v)))

triangular_impl_2(c, low, high) ==
    Bind(get_next_double(c, get_state_ptr("py")), LAMBDA randval :
        Ok(randval.c, F3("triangular_impl_2", randval.v, low, high)))

_triangular_impl_3(c, low, high, mode, state) ==
    Bind(get_next_double(c, get_state_ptr(state)), LAMBDA randval :
        IF FEq(high, low)
        THEN Ok(randval.c, low)
        ELSE Ok(randval.c, F4("triangular_impl_3", randval.v, low, high, mode)))

\* random.triangular(low, high, mode)
py_triangular_impl_3(c, args) ==
    _triangular_impl_3(c, args[1], args[2], args[3], "py")

\* A variant of np_triangular_impl_3 that takes low, high, mode.
np_triangular_impl_3_py_order(c, args) ==
    _triangular_impl_3(c, args[1], args[2], args[3], "np")

\* np.random.triangular(left, mode, right)
np_triangular_impl_3(c, args) ==
    _triangular_impl_3(c, args[1], args[3], args[2], "np")

\* gammavariate_impl, alpha > 1.0
RECURSIVE gamma_cheng(_, _, _, _)
gamma_cheng(c, alpha, beta, _random) ==
    Bind(call_random(c, _random), LAMBDA u1 :
    Bind(Flip(u1.c), LAMBDA inside :          \* 1e-7 < u1 < .9999999
        IF ~inside.v
        THEN gamma_cheng(inside.c, alpha, beta, _random)
        ELSE Bind(call_random(inside.c, _random), LAMBDA u2 :
             Bind(Flip(u2.c), LAMBDA accept : \* r + SG_MAGICCONST - 4.5*z >= 0.0 or r >= _log(z)
                 IF accept.v
                 THEN Ok(accept.c,
                         TimesBeta(F4("x*beta, alpha>1", alpha, beta, u1.v, u2.v),
                                   beta))
                 ELSE gamma_cheng(accept.c, alpha, beta, _random)))))

\* gammavariate_impl, alpha == 1.0
RECURSIVE gamma_expo(_, _, _)
gamma_expo(c, beta, _random) ==
    Bind(call_random(c, _random), LAMBDA u :
    Bind(Flip(u.c), LAMBDA large :            \* not u <= 1e-7
        IF large.v
        THEN Ok(large.c, TimesBeta(F2("-log(u)*beta", u.v, beta), beta))
        ELSE gamma_expo(large.c, beta, _random)))

\* gammavariate_impl, 0 < alpha < 1
RECURSIVE gamma_gs(_, _, _, _)
gamma_gs(c, alpha, beta, _random) ==
    Bind(call_random(c, _random), LAMBDA u :
    Bind(call_random(u.c, _random), LAMBDA u1 :
    Bind(Flip(u1.c), LAMBDA accept :          \* u1 <= x ** (alpha - 1.0), or u1 <= _exp(-x)
        IF accept.v
        THEN Ok(accept.c, F3("x*beta, alpha<1", alpha, beta, u.v))
        ELSE gamma_gs(accept.c, alpha, beta, _random))))

_gammavariate_impl(c, alpha, beta, _random) ==
    IF FLe0(alpha) \/ FLe0(beta)
    THEN Raise(c, "ValueError")
    ELSE IF FGt1(alpha) THEN gamma_cheng(c, alpha, beta, _random)
    ELSE IF FEq1(alpha) THEN gamma_expo(c, beta, _random)
    ELSE gamma_gs(c, alpha, beta, _random)

\* random.gammavariate
py_gammavariate_impl(c, args) ==
    _gammavariate_impl(c, args[1], args[2], "random.random")

\* np.random.standard_gamma, np.random.gamma
np_gammavariate_impl(c, args) ==
    Bind(_fill_defaults(args, <<FNone, FConst(1, 1)>>), LAMBDA a :
        _gammavariate_impl(c, a[1], a[2], "np.random.random"))

\* A call of random.gammavariate or np.random.gamma from a compiled
\* function.
call_gamma(c, gamma, alpha, beta) ==
    _gammavariate_impl(c, alpha, beta,
                       IF gamma = "random.gammavariate" THEN "random.random"
                       ELSE "np.random.random")

_betavariate_impl(c, alpha, beta, gamma) ==
    Try(call_gamma(c, gamma, alpha, FConst(1, 1)), LAMBDA y :
    Bind(Flip(y.c), LAMBDA zero :             \* y == 0.0
        IF zero.v
        THEN Ok(zero.c, FConst(0, 1))
        ELSE Try(call_gamma(zero.c, gamma, beta, FConst(1, 1)), LAMBDA y2 :
                 Ok(y2.c, F2("y/(y+gamma(beta,1.))", y.v, y2.v)))))

expovariate_impl(c, lambd) ==
    Bind(call_random(c, "random.random"), LAMBDA u :
        Ok(u.c, F2("-log(1.0-u)/lambd", u.v, lambd)))

\* np.random.exponential(scale)
exponential_impl(c, scale) ==
    Bind(call_random(c, "np.random.random"), LAMBDA u :
        Ok(u.c, F2("-log(1.0-u)*scale", u.v, scale)))

\* np.random.standard_exponential(), np.random.exponential()
exponential_impl0(c) ==
    Bind(call_random(c, "np.random.random"), LAMBDA u :
        Ok(u.c, F1("-log(1.0-u)", u.v)))

_lognormvariate_impl(c, mu, sigma, _gauss) ==
    Bind(_gauss_impl(c, mu, sigma,
                     IF _gauss = "random.gauss" THEN "py" ELSE "np"), LAMBDA g :
        Ok(g.c, F1("exp", g.v)))

np_lognormal_impl(c, args) ==
    Bind(_fill_defaults(args, <<FConst(0, 1), FConst(1, 1)>>), LAMBDA a :
        _lognormvariate_impl(c, a[1], a[2], "np.random.normal"))

lognormvariate_impl(c, mu, sigma) ==
    _lognormvariate_impl(c, mu, sigma, "random.gauss")

paretovariate_impl(c, alpha) ==
    Bind(call_random(c, "random.random"), LAMBDA u :
        Ok(u.c, F2("1.0/(1.0-u)**(1.0/alpha)", u.v, alpha)))

pareto_impl(c, alpha) ==
    Bind(call_random(c, "np.random.random"), LAMBDA u :
        Ok(u.c, F2("1.0/(1.0-u)**(1.0/alpha)-1", u.v, alpha)))

weibullvariate_impl(c, alpha, beta) ==
    Bind(call_random(c, "random.random"), LAMBDA u :
        Ok(u.c, F3("alpha*(-log(1.0-u))**(1.0/beta)", alpha, u.v, beta)))

weibull_impl(c, beta) ==
    Bind(call_random(c, "np.random.random"), LAMBDA u :
        Ok(u.c, F2("(-log(1.0-u))**(1.0/beta)", u.v, beta)))

\* The rejection loop of vonmisesvariate_impl; the value is u1, which
\* determines z.
RECURSIVE vonmises_loop(_, _)
vonmises_loop(c, _random) ==
    Bind(call_random(c, _random), LAMBDA u1 :
    Bind(call_random(u1.c, _random), LAMBDA u2 :
    Bind(Flip(u2.c), LAMBDA accept :          \* u2 < 1.0 - d*d or u2 <= (1.0 - d)*_exp(d)
        IF accept.v
        THEN [c |-> accept.c, v |-> u1.v]
        ELSE vonmises_loop(accept.c, _random))))

_vonmisesvariate_impl(c, mu, kappa, _random) ==
    IF FTiny(kappa)
    THEN Bind(call_random(c, _random), LAMBDA u : Ok(u.c, F1("TWOPI*", u.v)))
    ELSE Bind(vonmises_loop(c, _random), LAMBDA z :
         Bind(call_random(z.c, _random), LAMBDA u3 :
             Ok(u3.c, F4("theta", mu, kappa, z.v, u3.v))))

py_vonmisesvariate_impl(c, mu, kappa) ==
    _vonmisesvariate_impl(c, mu, kappa, "random.random")

np_vonmisesvariate_impl(c, mu, kappa) ==
    _vonmisesvariate_impl(c, mu, kappa, "np.random.random")

chisquare_impl(c, df) ==
    Try(np_gammavariate_impl(c, <<FHalf(df)>>), LAMBDA g :
        Ok(g.c, F1("2.0*", g.v)))

f_impl(c, num, denom) ==
    Try(chisquare_impl(c, num), LAMBDA a :
    Try(chisquare_impl(a.c, denom), LAMBDA b :
        Ok(b.c, F4("(a*denom)/(b*num)", a.v, denom, b.v, num))))

geometric_impl(c, p) ==
    IF FLe0(p) \/ FGt1(p)
    THEN Raise(c, "ValueError")
    ELSE Bind(call_random(c, "np.random.random"), LAMBDA U :
             IF FGeThird(p)
             THEN Ok(U.c, F2("X, U <= sum", p, U.v))
             ELSE Ok(U.c, F2("ceil(log(1.0-U)/log(q))", p, U.v)))

gumbel_impl(c, loc, scale) ==
    Bind(call_random(c, "np.random.random"), LAMBDA U :
        Ok(U.c, F3("loc-scale*log(-log(1.0-U))", loc, scale, U.v)))

\* Whether floor(U + Y / (d1 + K)) is above the whole part of the
\* quotient.  It is when U is the largest double below 1.0: added to a
\* fractional quotient it passes the next integer, and added to the whole
\* quotient 1.0 it gives 2.0 - 2^-53, which lies halfway between two
\* doubles and is rounded to the even one, 2.0.  It is not when U is
\* smaller and the quotient whole, nor when U is 0.0; otherwise the oracle
\* says.
carry_over(U, Y, K, d1) ==
    IF U.v = FRandMax THEN [c |-> U.c, v |-> TRUE]
    ELSE IF Y % (d1 + K) = 0 \/ U.v = FRandMin THEN [c |-> U.c, v |-> FALSE]
    ELSE Flip(U.c)

\* The loop of hypergeometric_impl, Y holding an integer:
\* floor(U + Y / (d1 + K)) is the whole part of the quotient, plus one
\* when U carries its fractional part over.
RECURSIVE hypergeometric_loop(_, _, _, _)
hypergeometric_loop(c, Y, K, d1) ==
    IF Y > 0 /\ K > 0
    THEN Bind(call_random(c, "np.random.random"), LAMBDA U :
         Bind(carry_over(U, Y, K, d1), LAMBDA carry :
             hypergeometric_loop(
                 carry.c,
                 Y - ((Y \div (d1 + K)) + (IF carry.v THEN 1 ELSE 0)),
                 K - 1, d1)))
    ELSE [c |-> c, v |-> Y]

Min(a, b) == IF a < b THEN a ELSE b

hypergeometric_impl(c, ngood, nbad, nsamples) ==
    Bind(hypergeometric_loop(c, Min(nbad, ngood), nsamples,
                             nbad + ngood - nsamples), LAMBDA Y :
        IF ngood > nbad
        THEN Ok(Y.c, FInt(nsamples - (Min(nbad, ngood) - Y.v)))
        ELSE Ok(Y.c, FInt(Min(nbad, ngood) - Y.v)))

laplace_impl(c, args) ==
    Bind(_fill_defaults(args, <<FConst(0, 1), FConst(1, 1)>>), LAMBDA a :
    Bind(call_random(c, "np.random.random"), LAMBDA U :
        Ok(U.c, F3("laplace_impl", a[1], a[2], U.v))))

logistic_impl(c, args) ==
    Bind(_fill_defaults(args, <<FConst(0, 1), FConst(1, 1)>>), LAMBDA a :
    Bind(call_random(c, "np.random.random"), LAMBDA U :
        Ok(U.c, F3("loc+scale*log(U/(1.0-U))", a[1], a[2], U.v))))

logseries_impl(c, p) ==
    IF FLe0(p) \/ FGt1(p)
    THEN Raise(c, "ValueError")
    ELSE Bind(call_random(c, "np.random.random"), LAMBDA V :
         Bind(Flip(V.c), LAMBDA t1 :              \* V >= p
             IF t1.v
             THEN Ok(t1.c, FInt(1))
             ELSE Bind(call_random(t1.c, "np.random.random"), LAMBDA U :
                  Bind(Flip(U.c), LAMBDA t2 :     \* V <= q * q
                      IF t2.v
                      THEN Ok(t2.c, F3("intty(1+log(V)/log(q))", p, V.v, U.v))
                      ELSE Bind(Flip(t2.c), LAMBDA t3 :   \* V >= q
                               Ok(t3.c, FInt(IF t3.v THEN 1 ELSE 2)))))))

\* numba_poisson_ptrs(state, lam): the transformed-rejection sampler for
\* lam >= 10; each round draws U and V.
RECURSIVE numba_poisson_ptrs(_, _, _)
numba_poisson_ptrs(c, state_ptr, lam) ==
    Bind(get_next_double(c, state_ptr), LAMBDA U :
    Bind(get_next_double(U.c, state_ptr), LAMBDA V :
    Bind(Flip(V.c), LAMBDA accept :
        IF accept.v
        THEN Ok(accept.c, F3("k", lam, U.v, V.v))
        ELSE numba_poisson_ptrs(accept.c, state_ptr, lam))))

\* The loop of poisson_impl for small lam.
RECURSIVE poisson_loop(_, _)
poisson_loop(c, X) ==
    Bind(call_random(c, "np.random.random"), LAMBDA U :
    Bind(Flip(U.c), LAMBDA done :             \* prod <= enlam
        IF done.v
        THEN Ok(done.c, FInt(X))
        ELSE poisson_loop(done.c, X + 1)))

\* The compiled inner poisson_impl(lam).  A lam that was drawn is a gamma
\* variate, which is never negative.
poisson_small(c, lam) ==
    IF FLt0(lam)
    THEN Raise(c, "ValueError")
    ELSE Bind(Decide(c, lam, FEq0(lam)), LAMBDA zero :    \* lam == 0.0
             IF zero.v
             THEN Ok(zero.c, FInt(0))
             ELSE poisson_loop(zero.c, 0))

poisson_impl(c, args) ==
    IF Len(args) = 1
    THEN Bind(Decide(c, args[1], FGe10(args[1])), LAMBDA big_lam :
             IF big_lam.v
             THEN numba_poisson_ptrs(big_lam.c, get_np_state_ptr, args[1])
             ELSE poisson_small(big_lam.c, args[1]))
    ELSE poisson_small(c, FConst(1, 1))

\* (1.0 - p) / p, for p > 0.0.
odds_against(p) == FConst(Den(p) - Num(p), Num(p))

\* dz is what the division (1.0 - p) / p does when p is 0.0.
negative_binomial_impl(c, n, p, dz) ==
    IF n <= 0
    THEN Raise(c, "ValueError")
    ELSE IF FLt0(p) \/ FGt1(p)
    THEN Raise(c, "ValueError")
    ELSE IF FEq0(p) /\ dz = "raise"
    THEN Raise(c, "ZeroDivisionError")
    ELSE Try(np_gammavariate_impl(
                 c, <<FConst(n, 1), IF FEq0(p) THEN FInf ELSE odds_against(p)>>),
             LAMBDA Y : poisson_impl(Y.c, <<Y.v>>))

\* A variant of power_impl without the check of a.
power_impl_unchecked(c, a) ==
    Bind(exponential_impl0(c), LAMBDA e :
        Ok(e.c, F2("pow(1-exp(-e),1./a)", e.v, a)))

power_impl(c, a) ==
    IF FLe0(a)
    THEN Raise(c, "ValueError")
    ELSE Bind(exponential_impl0(c), LAMBDA e :
             Ok(e.c, F2("pow(1-exp(-e),1./a)", e.v, a)))

\* A variant of Swap that stores arr[j] in arr[i] and leaves arr[j].
Swap_overwrite(arr, i, j) == [arr EXCEPT ![i + 1] = arr[j + 1]]

\* Exchanges arr[i] and arr[j], indices from 0.
Swap(arr, i, j) == [arr EXCEPT ![i + 1] = arr[j + 1], ![j + 1] = arr[i + 1]]

RECURSIVE shuffle_loop(_, _, _)
shuffle_loop(c, arr, i) ==
    IF i > 0
    THEN Bind(randrange_impl_1(c, i + 1, NoUB), LAMBDA j :
             IF j.status # "OK" \/ j.c.stuck
             THEN [c |-> j.c, status |-> j.status, v |-> FArray(arr)]
             ELSE shuffle_loop(j.c, Swap(arr, i, j.v.in[1]), i - 1))
    ELSE Ok(c, FArray(arr))

shuffle_impl(c, arr) == shuffle_loop(c, arr, Len(arr) - 1)

-----------------------------------------------------------------------------
(* The state: mem holds the two generator states; call records the call    *)
(* in progress (its arguments, the memory before it, its result, the words *)
(* it drew and its accesses to the gaussian cache) until the caller takes  *)
(* the result; budget counts the calls left.  twin is the memory of a      *)
(* second run of the program, which makes the calls made in mode "both"    *)
(* and skips those made in mode "first"; sync[s].on says that in both runs *)
(* stream s has the same history since it was last seeded,                 *)
(* sync[s].pending that when it was seeded the first run held a cached     *)
(* gaussian and the second run held none.                                  *)

\* The state as created: zeroed.
Blank ==
    [index |-> 0, array |-> [i \in 0..(N - 1) |-> U32(0)],
     has_gauss |-> 0, gauss |-> FZero]

\* Both states are seeded when the module is loaded.
Seeded(kpy, knp) ==
    [p \in StateNames |->
        numba_rnd_init(Blank, IF p = get_py_state_ptr THEN kpy ELSE knp)]

NoCall ==
    [fn |-> "none", state |-> "py", args |-> <<>>, mode |-> "both",
     flips |-> <<>>, pre |-> Seeded(1, 1), pre2 |-> Seeded(1, 1),
     status |-> "OK", ret |-> FNone,
     status2 |-> "OK", ret2 |-> FNone, words |-> <<>>, cache |-> <<>>]

FlipSeqs(k) == UNION {[1..n -> BOOLEAN] : n \in 0..k}

TwoRuns == {"first", "both"}

Lockstep == {"both"}

\* The call is recorded with its results in both runs.
Commit(fn, state, args, mode, fl, isSeed, r1, r2) ==
    /\ mem' = r1.c.mem
    /\ twin' = IF mode = "both" THEN r2.c.mem ELSE twin
    /\ sync' = IF mode # "both" THEN [sync EXCEPT ![state].on = FALSE]
               ELSE IF isSeed
               THEN [sync EXCEPT ![state] =
                       [on |-> TRUE,
                        pending |-> /\ mem[get_state_ptr(state)].has_gauss # 0
                                    /\ twin[get_state_ptr(state)].has_gauss = 0]]
               ELSE sync
    /\ call' = [fn |-> fn, state |-> state, args |-> args,
                mode |-> mode, flips |-> fl, pre |-> mem, pre2 |-> twin,
                status |-> r1.status, ret |-> r1.v,
                status2 |-> IF mode # "both" THEN "NONE"
                            ELSE IF ~r2.c.stuck /\ r2.c.flips = <<>>
                            THEN r2.status
                            ELSE "DIVERGED",
                ret2 |-> IF mode = "both" /\ ~r2.c.stuck /\ r2.c.flips = <<>>
                         THEN r2.v ELSE FNone,
                words |-> r1.c.words, cache |-> r1.c.cache]
    /\ budget' = budget - 1

\* One call of Op, a registered function, on the stream named state: the
\* first run makes it with an oracle it uses up, and the second run makes
\* it too in mode "both".
Step(fn, state, args, Op(_), modes, nflips, isSeed) ==
    /\ budget > 0
    /\ \E fl \in FlipSeqs(nflips), mode \in modes :
          /\ (mode = "both" /\ ~isSeed) => sync[state].on
          /\ \E r1 \in {Op(NewCtx(mem, fl))} :
                /\ ~r1.c.stuck
                /\ r1.c.flips = <<>>
                /\ \E r2 \in {IF mode = "both" /\ twin # mem
                              THEN Op(NewCtx(twin, fl)) ELSE r1} :
                      Commit(fn, state, args, mode, fl, isSeed, r1, r2)

-----------------------------------------------------------------------------
(* The arguments the calls are given. *)

GaussArgs == {<<Q(0), Q(4)>>, <<Q(6), Q(2)>>}

NpGaussArgs == {<<>>, <<Q(6)>>, <<Q(6), Q(2)>>}

BitCounts == {1, 5, 32, 33, 64}

\* The integers the range operations are given in SpecLib.
SomeInts == {-2, 0, 3}

\* Valid shape, scale and rate parameters: 0.5, 1.0, 1.5.
Positive == {Q(2), Q(4), Q(6)}

\* The same with -1.0 and 0.0.
Signed == {Q(-4), Q(0)} \cup Positive

\* Location and scale pairs.
Pairs == {<<Q(0), Q(4)>>, <<Q(2), Q(6)>>}

\* With the defaults taken.
OptPairs == {<<>>, <<Q(2)>>, <<Q(2), Q(6)>>}

Triples == {<<Q(0), Q(4), Q(2)>>, <<Q(0), Q(2), Q(4)>>, <<Q(4), Q(4), Q(4)>>}

GammaArgs == {<<a, b>> : a \in Signed, b \in {Q(0), Q(4)}}

NpGammaArgs == {<<a>> : a \in Signed} \cup {<<Q(4), Q(0)>>, <<Q(6), Q(2)>>}

BetaArgs == {<<Q(4), Q(4)>>, <<Q(2), Q(4)>>, <<Q(0), Q(4)>>, <<Q(4), Q(0)>>}

Degrees == {Q(0), Q(4), Q(8), Q(12)}

Probabilities == {Q(-4), Q(0), Q(1), Q(2), Q(4), Q(6)}

PoissonArgs == {<<>>, <<Q(-4)>>, <<Q(0)>>, <<Q(4)>>, <<Q(44)>>}

Counts == {-1, 0, 1, 2}

Urns == {<<g, b, s>> \in (0..2) \X (0..2) \X (0..4) : s <= g + b}

Arrays == {<<>>, <<7>>, <<7, 8>>, <<7, 8, 9>>}

-----------------------------------------------------------------------------
(* One action per registered function.  A range operation is recorded    *)
(* with the start, stop and step that _randrange_impl is given and with   *)
(* the outcome of an undefined division.                                   *)

\* random.seed
PySeed ==
    /\ call = NoCall
    /\ \E k \in SeedValues :
          Step("random.seed", "py", <<k>>,
               LAMBDA c : py_seed_impl(c, k), TwoRuns, 0, TRUE)

\* np.random.seed
NpSeed ==
    /\ call = NoCall
    /\ \E k \in SeedValues :
          Step("np.random.seed", "np", <<k>>,
               LAMBDA c : np_seed_impl(c, k), TwoRuns, 0, TRUE)

\* random.random
PyRandom ==
    /\ call = NoCall
    /\ Step("random.random", "py", <<>>,
            LAMBDA c : py_random_impl(c), TwoRuns, 0, FALSE)

\* np.random.random, np.random.rand
NpRandom ==
    /\ call = NoCall
    /\ Step("np.random.random", "np", <<>>,
            LAMBDA c : np_random_impl(c), TwoRuns, 0, FALSE)

\* random.gauss, random.normalvariate
PyGauss ==
    /\ call = NoCall
    /\ \E a \in GaussArgs :
          Step("random.gauss", "py", a,
               LAMBDA c : gauss_impl(c, a[1], a[2]), TwoRuns, MaxFlips, FALSE)

\* np.random.normal, np.random.standard_normal, np.random.randn
NpGauss ==
    /\ call = NoCall
    /\ \E a \in NpGaussArgs :
          Step("np.random.normal", "np", a,
               LAMBDA c : np_gauss_impl(c, a), TwoRuns, MaxFlips, FALSE)

\* random.getrandbits
PyGetrandbits ==
    /\ call = NoCall
    /\ \E nbits \in BitCounts :
          Step("random.getrandbits", "py", <<nbits>>,
               LAMBDA c : getrandbits_impl(c, nbits), TwoRuns, 0, FALSE)

\* random.randrange(stop)
PyRandrange1(D) ==
    /\ call = NoCall
    /\ \E stop \in D : \E ub \in UB(0, stop, 1) :
          Step("random.randrange/1", "py", <<0, stop, 1, ub>>,
               LAMBDA c : randrange_impl_1(c, stop, ub), Lockstep, 0, FALSE)

\* random.randrange(start, stop)
PyRandrange2(D) ==
    /\ call = NoCall
    /\ \E start \in D, stop \in D : \E ub \in UB(start, stop, 1) :
          Step("random.randrange/2", "py", <<start, stop, 1, ub>>,
               LAMBDA c : randrange_impl_2(c, start, stop, ub),
               Lockstep, 0, FALSE)

\* random.randrange(start, stop, step)
PyRandrange3(D) ==
    /\ call = NoCall
    /\ \E start \in D, stop \in D, step \in D :
          \E ub \in UB(start, stop, step) :
             Step("random.randrange/3", "py", <<start, stop, step, ub>>,
                  LAMBDA c : randrange_impl_3(c, start, stop, step, ub),
                  Lockstep, 0, FALSE)

\* random.randint(a, b)
PyRandint(D) ==
    /\ call = NoCall
    /\ \E start \in D, stop \in D : \E ub \in UB(start, Wrap(stop + 1), 1) :
          Step("random.randint", "py", <<start, Wrap(stop + 1), 1, ub>>,
               LAMBDA c : randint_impl_1(c, start, stop, ub),
               Lockstep, 0, FALSE)

\* np.random.randint(stop)
NpRandint1(D) ==
    /\ call = NoCall
    /\ \E stop \in D : \E ub \in UB(0, stop, 1) :
          Step("np.random.randint/1", "np", <<0, stop, 1, ub>>,
               LAMBDA c : randint_impl_2(c, stop, ub), Lockstep, 0, FALSE)

\* np.random.randint(start, stop)
NpRandint2(D) ==
    /\ call = NoCall
    /\ \E start \in D, stop \in D : \E ub \in UB(start, stop, 1) :
          Step("np.random.randint/2", "np", <<start, stop, 1, ub>>,
               LAMBDA c : np_randrange_impl_2(c, start, stop, ub),
               Lockstep, 0, FALSE)

\* random.uniform
PyUniform ==
    /\ call = NoCall
    /\ \E a \in Pairs :
          Step("random.uniform", "py", a,
               LAMBDA c : uniform_impl(c, a[1], a[2], "py"), Lockstep, 0, FALSE)

\* np.random.uniform
NpUniform ==
    /\ call = NoCall
    /\ \E a \in Pairs :
          Step("np.random.uniform", "np", a,
               LAMBDA c : uniform_impl(c, a[1], a[2], "np"), Lockstep, 0, FALSE)

\* random.triangular(low, high)
PyTriangular2 ==
    /\ call = NoCall
    /\ \E a \in Pairs :
          Step("random.triangular/2", "py", a,
               LAMBDA c : triangular_impl_2(c, a[1], a[2]), Lockstep, 0, FALSE)

\* random.triangular(low, high, mode)
PyTriangular3 ==
    /\ call = NoCall
    /\ \E a \in Triples :
          Step("random.triangular/3", "py", a,
               LAMBDA c : py_triangular_impl_3(c, a), Lockstep, 0, FALSE)

\* np.random.triangular(left, mode, right)
NpTriangular3 ==
    /\ call = NoCall
    /\ \E a \in Triples :
          Step("np.random.triangular", "np", a,
               LAMBDA c : np_triangular_impl_3(c, a), Lockstep, 0, FALSE)

\* random.gammavariate
PyGammavariate ==
    /\ call = NoCall
    /\ \E a \in GammaArgs :
          Step("random.gammavariate", "py", a,
               LAMBDA c : py_gammavariate_impl(c, a), Lockstep, MaxFlips, FALSE)

\* np.random.standard_gamma, np.random.gamma
NpGamma ==
    /\ call = NoCall
    /\ \E a \in NpGammaArgs :
          Step("np.random.gamma", "np", a,
               LAMBDA c : np_gammavariate_impl(c, a), Lockstep, MaxFlips, FALSE)

\* random.betavariate
PyBetavariate ==
    /\ call = NoCall
    /\ \E a \in BetaArgs :
          Step("random.betavariate", "py", a,
               LAMBDA c : _betavariate_impl(c, a[1], a[2], "random.gammavariate"),
               Lockstep, MaxFlips, FALSE)

\* np.random.beta
NpBeta ==
    /\ call = NoCall
    /\ \E a \in BetaArgs :
          Step("np.random.beta", "np", a,
               LAMBDA c : _betavariate_impl(c, a[1], a[2], "np.random.gamma"),
               Lockstep, MaxFlips, FALSE)

\* random.expovariate
PyExpovariate ==
    /\ call = NoCall
    /\ \E lambd \in Positive :
          Step("random.expovariate", "py", <<lambd>>,
               LAMBDA c : expovariate_impl(c, lambd), Lockstep, 0, FALSE)

\* np.random.exponential(scale)
NpExponential ==
    /\ call = NoCall
    /\ \E scale \in Positive :
          Step("np.random.exponential", "np", <<scale>>,
               LAMBDA c : exponential_impl(c, scale), Lockstep, 0, FALSE)

\* np.random.standard_exponential(), np.random.exponential()
NpStandardExponential ==
    /\ call = NoCall
    /\ Step("np.random.standard_exponential", "np", <<>>,
            LAMBDA c : exponential_impl0(c), Lockstep, 0, FALSE)

\* np.random.lognormal
NpLognormal ==
    /\ call = NoCall
    /\ \E a \in OptPairs :
          Step("np.random.lognormal", "np", a,
               LAMBDA c : np_lognormal_impl(c, a), Lockstep, MaxFlips, FALSE)

\* random.lognormvariate
PyLognormvariate ==
    /\ call = NoCall
    /\ \E a \in Pairs :
          Step("random.lognormvariate", "py", a,
               LAMBDA c : lognormvariate_impl(c, a[1], a[2]),
               Lockstep, MaxFlips, FALSE)

\* random.paretovariate
PyParetovariate ==
    /\ call = NoCall
    /\ \E alpha \in Positive :
          Step("random.paretovariate", "py", <<alpha>>,
               LAMBDA c : paretovariate_impl(c, alpha), Lockstep, 0, FALSE)

\* np.random.pareto
NpPareto ==
    /\ call = NoCall
    /\ \E alpha \in Positive :
          Step("np.random.pareto", "np", <<alpha>>,
               LAMBDA c : pareto_impl(c, alpha), Lockstep, 0, FALSE)

\* random.weibullvariate
PyWeibullvariate ==
    /\ call = NoCall
    /\ \E a \in Pairs :
          Step("random.weibullvariate", "py", a,
               LAMBDA c : weibullvariate_impl(c, a[1], a[2]), Lockstep, 0, FALSE)

\* np.random.weibull
NpWeibull ==
    /\ call = NoCall
    /\ \E beta \in Positive :
          Step("np.random.weibull", "np", <<beta>>,
               LAMBDA c : weibull_impl(c, beta), Lockstep, 0, FALSE)

\* random.vonmisesvariate
PyVonmisesvariate ==
    /\ call = NoCall
    /\ \E mu \in {Q(0)}, kappa \in {Q(0), Q(4)} :
          Step("random.vonmisesvariate", "py", <<mu, kappa>>,
               LAMBDA c : py_vonmisesvariate_impl(c, mu, kappa),
               Lockstep, MaxFlips, FALSE)

\* np.random.vonmises
NpVonmises ==
    /\ call = NoCall
    /\ \E mu \in {Q(0)}, kappa \in {Q(0), Q(4)} :
          Step("np.random.vonmises", "np", <<mu, kappa>>,
               LAMBDA c : np_vonmisesvariate_impl(c, mu, kappa),
               Lockstep, MaxFlips, FALSE)

\* np.random.chisquare
NpChisquare ==
    /\ call = NoCall
    /\ \E df \in Degrees :
          Step("np.random.chisquare", "np", <<df>>,
               LAMBDA c : chisquare_impl(c, df), Lockstep, MaxFlips, FALSE)

\* np.random.f
NpF ==
    /\ call = NoCall
    /\ \E num \in {Q(0), Q(8)}, denom \in {Q(0), Q(8)} :
          Step("np.random.f", "np", <<num, denom>>,
               LAMBDA c : f_impl(c, num, denom), Lockstep, MaxFlips, FALSE)

\* np.random.geometric
NpGeometric ==
    /\ call = NoCall
    /\ \E p \in Probabilities :
          Step("np.random.geometric", "np", <<p>>,
               LAMBDA c : geometric_impl(c, p), Lockstep, 0, FALSE)

\* np.random.gumbel
NpGumbel ==
    /\ call = NoCall
    /\ \E a \in Pairs :
          Step("np.random.gumbel", "np", a,
               LAMBDA c : gumbel_impl(c, a[1], a[2]), Lockstep, 0, FALSE)

\* np.random.hypergeometric, on urns that hold the sample
NpHypergeometric ==
    /\ call = NoCall
    /\ \E a \in Urns :
          Step("np.random.hypergeometric", "np", a,
               LAMBDA c : hypergeometric_impl(c, a[1], a[2], a[3]),
               Lockstep, MaxFlips, FALSE)

\* np.random.laplace
NpLaplace ==
    /\ call = NoCall
    /\ \E a \in OptPairs :
          Step("np.random.laplace", "np", a,
               LAMBDA c : laplace_impl(c, a), Lockstep, 0, FALSE)

\* np.random.logistic
NpLogistic ==
    /\ call = NoCall
    /\ \E a \in OptPairs :
          Step("np.random.logistic", "np", a,
               LAMBDA c : logistic_impl(c, a), Lockstep, 0, FALSE)

\* np.random.logseries
NpLogseries ==
    /\ call = NoCall
    /\ \E p \in Probabilities :
          Step("np.random.logseries", "np", <<p>>,
               LAMBDA c : logseries_impl(c, p), Lockstep, MaxFlips, FALSE)

\* np.random.negative_binomial
NpNegativeBinomial ==
    /\ call = NoCall
    /\ \E n \in Counts, p \in Probabilities :
          \E dz \in IF FEq0(p) THEN DivByZero ELSE {"raise"} :
             Step("np.random.negative_binomial", "np", <<n, p>>,
                  LAMBDA c : negative_binomial_impl(c, n, p, dz),
                  Lockstep, MaxFlips, FALSE)

\* np.random.poisson
NpPoisson ==
    /\ call = NoCall
    /\ \E a \in PoissonArgs :
          Step("np.random.poisson", "np", a,
               LAMBDA c : poisson_impl(c, a), Lockstep, MaxFlips, FALSE)

\* np.random.power
NpPower ==
    /\ call = NoCall
    /\ \E a \in Signed :
          Step("np.random.power", "np", <<a>>,
               LAMBDA c : power_impl(c, a), Lockstep, 0, FALSE)

\* random.shuffle
PyShuffle ==
    /\ call = NoCall
    /\ \E arr \in Arrays :
          Step("random.shuffle", "py", arr,
               LAMBDA c : shuffle_impl(c, arr), Lockstep, 0, FALSE)

\* The caller takes the result of the call.
Return ==
    /\ call # NoCall
    /\ call' = NoCall
    /\ UNCHANGED <<mem, twin, sync, budget>>

-----------------------------------------------------------------------------
(* Spec: the engine, from the state the module is loaded in. *)

InSync == [s \in Streams |-> [on |-> TRUE, pending |-> FALSE]]

Init ==
    /\ \E kpy \in SeedValues, knp \in SeedValues : mem = Seeded(kpy, knp)
    /\ twin = mem
    /\ sync = InSync
    /\ call = NoCall
    /\ budget = MaxCalls

Next ==
    \/ PySeed
    \/ NpSeed
    \/ PyRandom
    \/ NpRandom
    \/ PyGauss
    \/ NpGauss
    \/ PyGetrandbits
    \/ Return

Spec == Init /\ [][Next]_vars

-----------------------------------------------------------------------------
(* SpecLib: one call of any registered function, from the states that the  *)
(* streams are in after a seed, after a draw and after a gaussian was      *)
(* cached.  The second run starts with the same memory, or with a memory   *)
(* in which one stream has another history.                                *)

Histories == {"seeded", "drawn", "cached"}

RandomOf(s) == IF s = "py" THEN "random.random" ELSE "np.random.random"

\* The memory m after stream s went through history h.
After(m, s, h) ==
    IF h = "seeded" THEN m
    ELSE IF h = "drawn" THEN call_random(NewCtx(m, <<>>), RandomOf(s)).c.mem
    ELSE _gauss_impl(NewCtx(m, <<TRUE>>), FConst(0, 1), FConst(1, 1), s).c.mem

Warm(kpy, knp, hpy, hnp) == After(After(Seeded(kpy, knp), "py", hpy), "np", hnp)

\* The memory of a run that seeded the streams the other way round.
Elsewhere == Warm(NumSeeds, 1, "cached", "cached")

InitLib ==
    /\ \E hpy \in Histories, hnp \in Histories :
          mem = Warm(1, NumSeeds, hpy, hnp)
    /\ \E apart \in {{}, {"py"}, {"np"}} :
          /\ twin = [p \in StateNames |->
                        IF \E s \in apart : p = get_state_ptr(s)
                        THEN Elsewhere[p] ELSE mem[p]]
          /\ sync = [s \in Streams |-> [on |-> s \notin apart, pending |-> FALSE]]
    /\ call = NoCall
    /\ budget = MaxCalls

NextLib ==
    \/ PySeed
    \/ NpSeed
    \/ PyRandom
    \/ NpRandom
    \/ PyGauss
    \/ NpGauss
    \/ PyGetrandbits
    \/ PyRandrange1(SomeInts)
    \/ PyRandrange2(SomeInts)
    \/ PyRandrange3(SomeInts)
    \/ PyRandint(SomeInts)
    \/ NpRandint1(SomeInts)
    \/ NpRandint2(SomeInts)
    \/ PyUniform
    \/ NpUniform
    \/ PyTriangular2
    \/ PyTriangular3
    \/ NpTriangular3
    \/ PyGammavariate
    \/ NpGamma
    \/ PyBetavariate
    \/ NpBeta
    \/ PyExpovariate
    \/ NpExponential
    \/ NpStandardExponential
    \/ NpLognormal
    \/ PyLognormvariate
    \/ PyParetovariate
    \/ NpPareto
    \/ PyWeibullvariate
    \/ NpWeibull
    \/ PyVonmisesvariate
    \/ NpVonmises
    \/ NpChisquare
    \/ NpF
    \/ NpGeometric
    \/ NpGumbel
    \/ NpHypergeometric
    \/ NpLaplace
    \/ NpLogistic
    \/ NpLogseries
    \/ NpNegativeBinomial
    \/ NpPoisson
    \/ NpPower
    \/ PyShuffle

SpecLib == InitLib /\ [][NextLib]_vars

-----------------------------------------------------------------------------
(* SpecRange: one call of a range operation, on every start, stop and step *)
(* of the integer type.                                                    *)

InitRange ==
    /\ \E h \in Histories : mem = Warm(1, NumSeeds, h, h)
    /\ twin = mem
    /\ sync = InSync
    /\ call = NoCall
    /\ budget = MaxCalls

NextRange ==
    \/ PyRandrange1(Ints)
    \/ PyRandrange2(Ints)
    \/ PyRandrange3(Ints)
    \/ PyRandint(Ints)
    \/ NpRandint1(Ints)
    \/ NpRandint2(Ints)

SpecRange == InitRange /\ [][NextRange]_vars

-----------------------------------------------------------------------------
(* SpecWords: one call of an operation whose result is a function of the   *)
(* words it draws, on states whose array holds any words of EdgeWords.     *)
(* MT19937 is equidistributed, so every run of words is drawn somewhere in *)
(* its period; the words chosen are those whose tempered values are        *)
(* 0x00000000, 0x40000000, 0x80000000 and 0xffffffff.                      *)

EdgeWords ==
    {<<0, 0>>, <<\h4c01, \h9032>>, <<\h8010, \h2204>>, <<\h12dd, \h9bb3>>}

InitWords ==
    /\ \E a \in [0..(N - 1) -> EdgeWords] :
          mem = [p \in StateNames |-> [Blank EXCEPT !.array = a]]
    /\ twin = mem
    /\ sync = InSync
    /\ call = NoCall
    /\ budget = 1

NextWords ==
    \/ PyRandom
    \/ NpRandom
    \/ PyGetrandbits
    \/ NpHypergeometric
    \/ PyShuffle
    \/ Return

SpecWords == InitWords /\ [][NextWords]_vars

-----------------------------------------------------------------------------
(* SpecLoop: the while loop of _randrange_impl, one iteration at a step.   *)
(* call.status is the basic block the call is in, call.args holds n,       *)
(* nbits and the iterations made (counted up to MaxRedraws + 1), call.ret  *)
(* the last r.  The word an iteration reads is any word, and the draws are *)
(* fair: an r that is not too large, which every iteration can draw, is    *)
(* drawn in the end.                                                       *)

\* A variant of too_large that compares with >.
too_large_strict(r, n) == r > n

\* icmp_signed('>=', r, n)
too_large(r, n) == r >= n

\* Words whose top IntWidth bits take every value.
LoopWords == {<<k * 2^(16 - IntWidth), 0>> : k \in 0..(2^IntWidth - 1)}

\* r = trunc(get_next_int(nbits)) when the word read is w, nbits <= 32.
next_r(w, nbits) == trunc(<<U32(0), lshr(w, 32 - nbits)>>)

\* _randrange_impl reaches the loop with n > 0 and nbits = width - ctlz(n).
EnterLoop ==
    /\ call = NoCall
    /\ budget > 0
    /\ \E n \in 1..IntMax :
          call' = [NoCall EXCEPT !.fn = "_randrange_impl",
                                 !.args = <<n, IntWidth - ctlz(n), 0>>,
                                 !.status = "while"]
    /\ budget' = budget - 1
    /\ UNCHANGED <<mem, twin, sync>>

\* An iteration whose r is too large branches to while.
Redraw ==
    /\ call.status = "while"
    /\ \E w \in LoopWords :
          /\ too_large(next_r(w, call.args[2]), call.args[1])
          /\ call' = [call EXCEPT !.ret = FInt(next_r(w, call.args[2])),
                                  !.args[3] = Min(@ + 1, MaxRedraws + 1)]
    /\ UNCHANGED <<mem, twin, sync, budget>>

\* An iteration whose r is not too large branches to while.end.
ExitLoop ==
    /\ call.status = "while"
    /\ \E w \in LoopWords :
          /\ ~too_large(next_r(w, call.args[2]), call.args[1])
          /\ call' = [call EXCEPT !.ret = FInt(next_r(w, call.args[2])),
                                  !.args[3] = Min(@ + 1, MaxRedraws + 1),
                                  !.status = "while.end"]
    /\ UNCHANGED <<mem, twin, sync, budget>>

\* The call returns from while.end.
LeaveLoop ==
    /\ call.status = "while.end"
    /\ call' = NoCall
    /\ UNCHANGED <<mem, twin, sync, budget>>

InitLoop ==
    /\ mem = Seeded(1, 1)
    /\ twin = mem
    /\ sync = InSync
    /\ call = NoCall
    /\ budget = MaxCalls

NextLoop ==
    \/ EnterLoop
    \/ Redraw
    \/ ExitLoop
    \/ LeaveLoop

SpecLoop == InitLoop /\ [][NextLoop]_vars /\ WF_vars(ExitLoop)

-----------------------------------------------------------------------------
(* The properties. *)

\* A call is recorded.
Called == call.fn # "none"

\* The state of stream s, and the state of the other stream.
StateOf(s) == IF s = "py" THEN "numba_py_random_state" ELSE "numba_np_random_state"

OtherStateOf(s) == IF s = "py" THEN "numba_np_random_state" ELSE "numba_py_random_state"

\* Two states that give the same outputs from here on: the cached value
\* counts only while the flag is set.
SameStream(a, b) ==
    /\ a.index = b.index
    /\ a.array = b.array
    /\ a.has_gauss = b.has_gauss
    /\ a.has_gauss # 0 => a.gauss = b.gauss

IsSeed == call.fn \in {"random.seed", "np.random.seed"}

IsGauss == call.fn \in {"random.gauss", "np.random.normal"}

IsRange ==
    call.fn \in {"random.randrange/1", "random.randrange/2", "random.randrange/3",
                 "random.randint", "np.random.randint/1", "np.random.randint/2"}

\* C1: a call made by both runs after each seeded the stream with the same
\* value, and made the same calls on it since, gives the same status and the
\* same value in both runs, and leaves the stream in states that give the
\* same outputs, whatever the first run had done on the stream before the
\* seed.
C1_Determinism ==
    /\ (Called /\ call.mode = "both") =>
          /\ call.status2 = call.status
          /\ call.ret2 = call.ret
    /\ \A s \in Streams :
          sync[s].on => SameStream(mem[StateOf(s)], twin[StateOf(s)])

\* A gaussian call that both runs make after a seed that found a cached
\* gaussian in the first run and none in the second: it draws in both.
C1_Witness ==
    /\ IsGauss
    /\ call.mode = "both"
    /\ sync[call.state].pending
    /\ call.words # <<>>
    /\ call.status = "OK"

\* C2: a call on one stream leaves the state of the other stream as it was,
\* draws words and accesses the gaussian cache only in the state of its own
\* stream, and gives the same status and value, and the same state of its
\* stream, in a run in which the other stream has another history.
C2_StreamIndependence ==
    Called =>
        /\ mem[OtherStateOf(call.state)] = call.pre[OtherStateOf(call.state)]
        /\ \A i \in DOMAIN call.words : call.words[i].ptr = StateOf(call.state)
        /\ \A i \in DOMAIN call.cache : call.cache[i].ptr = StateOf(call.state)
        /\ call.mode = "both" =>
              /\ twin[OtherStateOf(call.state)] = call.pre2[OtherStateOf(call.state)]
              /\ call.status2 = call.status
              /\ call.ret2 = call.ret
              /\ SameStream(mem[StateOf(call.state)], twin[StateOf(call.state)])

\* A distribution of the NumPy stream that drew words, made in two runs
\* whose Python streams are in different states.
C2_Witness ==
    /\ call.fn = "np.random.negative_binomial"
    /\ call.mode = "both"
    /\ call.status = "OK"
    /\ call.words # <<>>
    /\ call.pre2[StateOf("py")] # call.pre[StateOf("py")]
    /\ mem[StateOf("py")] = call.pre[StateOf("py")]

\* One draw of a word: the index it found is at most N, a reshuffle ran
\* exactly when that index was N and reset it to 0, the word read is
\* array[i] with 0 <= i < N, and the index stored is i + 1.
WordReadOk(e) ==
    /\ e.before \in 0..N
    /\ e.reshuffled = (e.before = N)
    /\ e.read = (IF e.before = N THEN 0 ELSE e.before)
    /\ e.read \in 0..(N - 1)
    /\ e.after = e.read + 1

\* C3: the index of both states is in 0..N; every draw of a word is as
\* WordReadOk says; and the draws of a call start at the index the call
\* found, each at the index the one before it stored, and end at the index
\* the call leaves.
C3_IndexBounds ==
    /\ \A p \in StateNames : mem[p].index \in 0..N
    /\ \A i \in DOMAIN call.words : WordReadOk(call.words[i])
    /\ \A i \in DOMAIN call.words :
          call.words[i].before =
              IF i = 1 THEN call.pre[call.words[i].ptr].index
              ELSE call.words[i - 1].after
    /\ call.words # <<>> =>
          mem[StateOf(call.state)].index = call.words[Len(call.words)].after

\* A call whose draws counted the index up to N and then reshuffled.
C3_Witness ==
    \E i \in 2..Len(call.words) :
        /\ call.words[i].before = N
        /\ call.words[i].reshuffled
        /\ call.words[i].read = 0
        /\ call.words[i - 1].read = N - 1

\* C4: the flag is 0 or 1; a call that accesses the gaussian cache first
\* loads the flag; having found it set, it loads the cached value and
\* stores 0 to the flag, which is 0 when it returns; having found it clear,
\* it stores a value to the cache and then 1 to the flag, which is 1, with
\* that value cached, when it returns.  A gaussian call accesses the cache.
C4_SingleSlotCache ==
    /\ \A p \in StateNames : mem[p].has_gauss \in {0, 1}
    /\ IsGauss => call.cache # <<>>
    /\ call.cache # <<>> =>
          /\ Len(call.cache) = 3
          /\ call.cache[1].op = "load has_gauss"
          /\ call.cache[1].val = call.pre[StateOf(call.state)].has_gauss
          /\ IF call.cache[1].val # 0
             THEN /\ call.cache[2].op = "load gauss"
                  /\ call.cache[2].val = call.pre[StateOf(call.state)].gauss
                  /\ call.cache[3].op = "store has_gauss"
                  /\ call.cache[3].val = 0
                  /\ mem[StateOf(call.state)].has_gauss = 0
             ELSE /\ call.cache[2].op = "store gauss"
                  /\ call.cache[3].op = "store has_gauss"
                  /\ call.cache[3].val = 1
                  /\ mem[StateOf(call.state)].has_gauss = 1
                  /\ mem[StateOf(call.state)].gauss = call.cache[2].val

\* A call that found the flag set and read the cached value.
C4_Witness ==
    /\ Len(call.cache) = 3
    /\ call.cache[1].val = 1
    /\ call.cache[2].op = "load gauss"
    /\ call.cache[3].val = 0

\* The mu and sigma of a gaussian call.
GaussMu == (call.args \o SubSeq(<<FConst(0, 1), FConst(1, 1)>>, Len(call.args) + 1, 2))[1]

GaussSigma == (call.args \o SubSeq(<<FConst(0, 1), FConst(1, 1)>>, Len(call.args) + 1, 2))[2]

\* The f*x2 of the pair whose f*x1 is g.
SecondOf(g) == [op |-> <<"f*x2">> \o Tail(g.op), in |-> g.in]

\* C5: a seed clears the flag; a gaussian call that finds it clear draws,
\* caches the f*x1 of a pair, sets the flag and returns mu + sigma * f*x2
\* of that pair; a gaussian call that finds it set draws no word, returns
\* mu + sigma * the cached f*x1, and changes nothing but the flag, which it
\* clears; no other call changes the flag.  So the gaussian calls on a
\* stream since its seed compute and consume in turn.
C5_GaussAlternation ==
    /\ IsSeed => mem[StateOf(call.state)].has_gauss = 0
    /\ (IsGauss /\ call.pre[StateOf(call.state)].has_gauss = 0) =>
          /\ call.words # <<>>
          /\ mem[StateOf(call.state)].has_gauss = 1
          /\ Head(mem[StateOf(call.state)].gauss.op) = "f*x1"
          /\ call.ret = F3("mu+sigma*", GaussMu, GaussSigma,
                           SecondOf(mem[StateOf(call.state)].gauss))
    /\ (IsGauss /\ call.pre[StateOf(call.state)].has_gauss # 0) =>
          /\ call.words = <<>>
          /\ Head(call.pre[StateOf(call.state)].gauss.op) = "f*x1"
          /\ call.ret = F3("mu+sigma*", GaussMu, GaussSigma,
                           call.pre[StateOf(call.state)].gauss)
          /\ mem[StateOf(call.state)] =
                [call.pre[StateOf(call.state)] EXCEPT !.has_gauss = 0]
    /\ (Called /\ ~IsGauss /\ ~IsSeed) =>
          mem[StateOf(call.state)].has_gauss =
              call.pre[StateOf(call.state)].has_gauss

\* A gaussian call that returned the value cached by the call before it
\* without drawing.
C5_Witness ==
    /\ IsGauss
    /\ call.pre[StateOf(call.state)].has_gauss = 1
    /\ call.words = <<>>
    /\ call.status = "OK"
    /\ mem[StateOf(call.state)].has_gauss = 0

\* C6: random.randrange(start, stop, step) with step = 0 fails, whatever
\* start and stop are: so it does for start < stop whose difference is
\* within the integer type.
C6_ZeroStepFails ==
    (/\ call.fn = "random.randrange/3"
     /\ call.args[3] = 0
     /\ call.args[1] < call.args[2]
     /\ call.args[2] - call.args[1] <= IntMax) =>
        call.status # "OK"

\* The elements of range(start, stop, step), step # 0.
Progression(start, stop, step) ==
    {x \in {start + k * step : k \in 0..(2^IntWidth)} :
        IF step > 0 THEN x < stop ELSE x > stop}

\* C7: random.randrange(start, stop, step) with step # 0 and at least one
\* element in range(start, stop, step) returns one of these elements, even
\* counting only the calls that divide nothing undefined.
C7_RangeCorrect ==
    (/\ call.fn = "random.randrange/3"
     /\ call.args[3] # 0
     /\ ~randrange_undefined(call.args[1], call.args[2], call.args[3])
     /\ Progression(call.args[1], call.args[2], call.args[3]) # {}) =>
        /\ call.status = "OK"
        /\ call.ret.in[1] \in Progression(call.args[1], call.args[2], call.args[3])

\* C8: a range operation that computes an element count n <= 0 fails with
\* the error code, draws no word and leaves both states as they were.
C8_EmptyRangeFails ==
    (/\ IsRange
     /\ ~(randrange_undefined(call.args[1], call.args[2], call.args[3])
          /\ call.args[4].trap)
     /\ randrange_n(call.args[1], call.args[2], call.args[3], call.args[4]) <= 0) =>
        /\ call.status = "RUNTIME_ERROR"
        /\ call.words = <<>>
        /\ call.cache = <<>>
        /\ mem = call.pre

\* random.randrange(start, start, 1) failed.
C8_Witness ==
    /\ call.fn = "random.randrange/3"
    /\ call.args[1] = call.args[2]
    /\ call.args[3] = 1
    /\ call.status = "RUNTIME_ERROR"
    /\ call.words = <<>>

\* C9: np.random.negative_binomial(n, p) with n <= 0, p <= 0 or p > 1
\* raises ValueError and draws no word.
C9_NegativeBinomialDomain ==
    (/\ call.fn = "np.random.negative_binomial"
     /\ \/ call.args[1] <= 0
        \/ FLe0(call.args[2])
        \/ FGt1(call.args[2])) =>
        /\ call.status = "ValueError"
        /\ call.words = <<>>

\* The calls C10 is about: a parameter outside the domain.
OutsideDomain ==
    \/ /\ call.fn = "random.gammavariate"
       /\ FLe0(call.args[1]) \/ FLe0(call.args[2])
    \/ /\ call.fn = "np.random.gamma"
       /\ FLe0(call.args[1]) \/ (Len(call.args) = 2 /\ FLe0(call.args[2]))
    \/ /\ call.fn = "np.random.poisson"
       /\ Len(call.args) = 1
       /\ FLt0(call.args[1])
    \/ /\ call.fn \in {"np.random.geometric", "np.random.logseries"}
       /\ FLe0(call.args[1]) \/ FGt1(call.args[1])
    \/ /\ call.fn = "np.random.power"
       /\ FLe0(call.args[1])

\* C10: gammavariate and gamma with alpha <= 0 or beta <= 0, poisson with
\* lambda < 0, geometric and logseries with p <= 0 or p > 1 and power with
\* a <= 0 raise ValueError, draw no word, do not access the gaussian cache
\* and leave both states as they were, in both runs.
C10_DomainErrorsKeepState ==
    OutsideDomain =>
        /\ call.status = "ValueError"
        /\ call.words = <<>>
        /\ call.cache = <<>>
        /\ mem = call.pre
        /\ call.mode = "both" => (call.status2 = "ValueError" /\ twin = call.pre2)

\* np.random.poisson(-1.0) failed on a stream that holds a cached gaussian.
C10_Witness ==
    /\ call.fn = "np.random.poisson"
    /\ call.args = <<Q(-4)>>
    /\ call.status = "ValueError"
    /\ call.pre[StateOf("np")].has_gauss = 1
    /\ mem = call.pre

\* The state st after k reshuffles.
RECURSIVE Twisted(_, _)
Twisted(st, k) == IF k = 0 THEN st ELSE Twisted(numba_rnd_shuffle(st), k - 1)

\* The number of reshuffles up to the i-th draw of the call.
Reshuffles(i) == Cardinality({j \in 1..i : call.words[j].reshuffled})

\* The word that the i-th draw of the call returned.
WordAt(i) ==
    temper(Twisted(call.pre[call.words[i].ptr], Reshuffles(i)).array[call.words[i].read])

\* w >> k for a 32-bit word w and 1 <= k <= 16, as a number.
Shr(w, k) == w[1] * 2^(16 - k) + (w[2] \div 2^k)

IsRandom == call.fn \in {"random.random", "np.random.random"}

\* C11: a call of random draws exactly two words and returns
\* (a * 2^26 + b) / 2^53 with a = first word >> 5 and b = second word >> 6;
\* a is in [0, 2^27 - 1] and b in [0, 2^26 - 1], so the numerator, the
\* two-digit number a b in base 2^26, is in [0, 2^53 - 1] and the result in
\* [0, 1).
C11_DoubleInUnitInterval ==
    IsRandom =>
        /\ call.status = "OK"
        /\ Len(call.words) = 2
        /\ call.ret = FRand(Shr(WordAt(1), 5), Shr(WordAt(2), 6))
        /\ call.ret.in[1] \in 0..(2^27 - 1)
        /\ call.ret.in[2] \in 0..(2^26 - 1)

\* A call of random that drew 0xffffffff twice and returned the largest
\* double below 1.0.
C11_Witness ==
    /\ IsRandom
    /\ WordAt(1) = <<65535, 65535>>
    /\ WordAt(2) = <<65535, 65535>>
    /\ call.ret = FRandMax

\* The top n bits of the 32-bit word w, 1 <= n <= 32, as a word.
TopBits(w, n) ==
    IF n <= 16
    THEN <<0, w[1] \div 2^(16 - n)>>
    ELSE <<w[1] \div 2^(32 - n), (((w[1] % 2^(32 - n)) * H16) + w[2]) \div 2^(32 - n)>>

\* The 32-bit word w is below 2^n, 0 <= n <= 32.
Below(w, n) == IF n <= 16 THEN w[1] = 0 /\ w[2] < 2^n ELSE w[1] < 2^(n - 16)

\* C12: random.getrandbits(n) with n <= 32 draws one word and returns its
\* top n bits; with n > 32 it draws two words and returns the first as the
\* low 32 bits and the top n - 32 bits of the second above them; the
\* result is below 2^n.
C12_BitsOfWords ==
    call.fn = "random.getrandbits" =>
        /\ call.status = "OK"
        /\ IF call.args[1] <= 32
           THEN /\ Len(call.words) = 1
                /\ call.ret = FInt64(<<U32(0), TopBits(WordAt(1), call.args[1])>>)
                /\ Below(<<call.ret.in[3], call.ret.in[4]>>, call.args[1])
           ELSE /\ Len(call.words) = 2
                /\ call.ret =
                      FInt64(<<TopBits(WordAt(2), call.args[1] - 32), WordAt(1)>>)
                /\ Below(<<call.ret.in[1], call.ret.in[2]>>, call.args[1] - 32)

\* random.getrandbits(33) that drew 0x80000000 and then 0xffffffff and
\* returned 2^32 + 2^31.
C12_Witness ==
    /\ call.fn = "random.getrandbits"
    /\ call.args = <<33>>
    /\ WordAt(1) = <<32768, 0>>
    /\ WordAt(2) = <<65535, 65535>>
    /\ call.ret = FInt64(<<<<0, 1>>, <<32768, 0>>>>)

\* C13: random.randint(a, b) with a <= b returns a value v with
\* a <= v <= b.  The call is recorded with the arguments it gives
\* _randrange_impl: a, b + 1 and 1.
C13_RandintInclusive ==
    (/\ call.fn = "random.randint"
     /\ call.args[1] <= Wrap(call.args[2] - 1)) =>
        /\ call.status = "OK"
        /\ call.ret.in[1] \in call.args[1]..Wrap(call.args[2] - 1)

\* The draws a shuffle of L elements can accept: for the k-th, which is
\* for position i = L - k, a value in [0, i].
Outcomes(L) ==
    IF L <= 1 THEN {<<>>}
    ELSE {js \in [1..(L - 1) -> 0..(L - 1)] : \A k \in 1..(L - 1) : js[k] <= L - k}

\* arr with the elements at i and j exchanged, indices from 0.
Exchanged(arr, i, j) ==
    [k \in 1..Len(arr) |->
        IF k = i + 1 THEN arr[j + 1] ELSE IF k = j + 1 THEN arr[i + 1] ELSE arr[k]]

\* Fisher-Yates on arr with the draws js, from the k-th on.
RECURSIVE FisherYates(_, _, _)
FisherYates(arr, js, k) ==
    IF k > Len(js) THEN arr
    ELSE FisherYates(Exchanged(arr, Len(arr) - k, js[k]), js, k + 1)

\* The arrangements of the elements of arr.
PermutationsOf(arr) ==
    {[k \in 1..Len(arr) |-> arr[p[k]]] :
        p \in {q \in [1..Len(arr) -> 1..Len(arr)] :
                  \A a, b \in 1..Len(arr) : q[a] = q[b] => a = b}}

\* The value that the k-th word of the call gives a draw for position i:
\* its top bits, as many as i + 1 has.
DrawnFor(i, k) == TopBits(WordAt(k), BitLength(i + 1))[2]

\* The draws that the call accepted for the positions i down to 1, read
\* from its words from the k-th on: a value above i is drawn again.
RECURSIVE Accepted(_, _)
Accepted(i, k) ==
    IF i <= 0 \/ k > Len(call.words) THEN <<>>
    ELSE IF DrawnFor(i, k) <= i
         THEN <<DrawnFor(i, k)>> \o Accepted(i - 1, k + 1)
         ELSE Accepted(i, k + 1)

\* The number of words that these draws took.
RECURSIVE Consumed(_, _)
Consumed(i, k) ==
    IF i <= 0 THEN 0
    ELSE IF k > Len(call.words) THEN 1
    ELSE IF DrawnFor(i, k) <= i
         THEN 1 + Consumed(i - 1, k + 1)
         ELSE 1 + Consumed(i, k + 1)

\* C14: random.shuffle(arr) of L elements draws on the Python stream
\* only; the words it reads are exactly those of L - 1 accepted draws (none
\* for L <= 1), the draw for position i = L - 1 down to 1 being in [0, i],
\* and of the draws rejected before them; the array it leaves is the
\* Fisher-Yates exchange of arr by these draws and holds every element as
\* often as arr does; and every arrangement of arr is the Fisher-Yates
\* exchange of arr by some draws.
C14_ShuffleIsPermutation ==
    call.fn = "random.shuffle" =>
        /\ call.status = "OK"
        /\ \A k \in DOMAIN call.words : call.words[k].ptr = get_py_state_ptr
        /\ Consumed(Len(call.args) - 1, 1) = Len(call.words)
        /\ Accepted(Len(call.args) - 1, 1) \in Outcomes(Len(call.args))
        /\ call.ret = FArray(FisherYates(call.args, Accepted(Len(call.args) - 1, 1), 1))
        /\ \A x \in {call.args[k] : k \in DOMAIN call.args} :
              Cardinality({k \in DOMAIN call.ret.in : call.ret.in[k] = x}) =
                  Cardinality({k \in DOMAIN call.args : call.args[k] = x})
        /\ Len(call.ret.in) = Len(call.args)
        /\ PermutationsOf(call.args) =
              {FisherYates(call.args, js, 1) : js \in Outcomes(Len(call.args))}

\* A shuffle of three elements that drew again once and left them
\* reversed.
C14_Witness ==
    /\ call.fn = "random.shuffle"
    /\ call.args = <<7, 8, 9>>
    /\ call.ret = FArray(<<9, 8, 7>>)
    /\ Len(call.words) = 3

\* The call is in the loop of _randrange_impl, and it has left it.
InLoop == call.status = "while"

AtEnd == call.status = "while.end"

\* In the loop and after it: nbits is the bit length of n, that is
\* 2^(nbits - 1) <= n < 2^nbits; an iteration can draw every r of nbits
\* bits, and at least half of them are not too large; the r of an
\* iteration that branched back is >= n; the r the loop leaves with is in
\* [0, n - 1].
LoopInv ==
    (InLoop \/ AtEnd) =>
        /\ call.args[1] >= 2^(call.args[2] - 1)
        /\ call.args[1] < 2^call.args[2]
        /\ {next_r(w, call.args[2]) : w \in LoopWords} = 0..(2^call.args[2] - 1)
        /\ 2 * Cardinality({r \in 0..(2^call.args[2] - 1) : r < call.args[1]})
              >= 2^call.args[2]
        /\ (InLoop /\ call.args[3] > 0) => call.ret.in[1] >= call.args[1]
        /\ AtEnd => (call.args[3] > 0 /\ call.ret.in[1] \in 0..(call.args[1] - 1))

\* An iteration is one draw, and the loop is left by the draw of an r < n
\* only.
LoopStep ==
    /\ InLoop => call'.args[3] = Min(call.args[3] + 1, MaxRedraws + 1)
    /\ (InLoop /\ call'.ret.in[1] < call.args[1]) => call'.status = "while.end"

\* C15: the loop of the bounded-range sampler keeps LoopInv, every
\* iteration is as LoopStep says, and under fair draws a call that is in
\* the loop leaves it.
C15_RejectionLoopTerminates ==
    /\ []LoopInv
    /\ [][LoopStep]_vars
    /\ InLoop ~> AtEnd

\* The loop was left by the third draw, the two before it too large.
C15_Witness ==
    /\ AtEnd
    /\ call.args[1] = 4
    /\ call.args[3] = 3

\* The uniform double made of the first two words the call read.
FirstUniform == FRand(Shr(WordAt(1), 5), Shr(WordAt(2), 6))

\* What triangular returns for the uniform draw u: low when high == low,
\* and else the value that the inner function computes from u, low, high
\* and mode.
TriangularOf(u, low, high, mode) ==
    IF Num(high) * Den(low) = Num(low) * Den(high) THEN low
    ELSE F4("triangular_impl_3", u, low, high, mode)

\* The memory before the call with the state of the NumPy stream in the
\* place of the state of the Python stream.
PyInPlaceOfNp == [call.pre EXCEPT ![get_py_state_ptr] = call.pre[get_np_state_ptr]]

\* C16: a three-argument triangular call reads exactly two words, of its
\* own stream, on every path; random.triangular(low, high, mode) returns
\* TriangularOf the uniform draw for low, high, mode; and
\* np.random.triangular(low, mode, high) returns TriangularOf it for low,
\* high, mode, which is what random.triangular(low, high, mode) returns and
\* does to its state when the Python stream is in the state of the NumPy
\* stream.
C16_TriangularArgumentOrder ==
    /\ call.fn \in {"random.triangular/3", "np.random.triangular"} =>
          /\ call.status = "OK"
          /\ Len(call.words) = 2
          /\ \A k \in DOMAIN call.words : call.words[k].ptr = StateOf(call.state)
    /\ call.fn = "random.triangular/3" =>
          call.ret = TriangularOf(FirstUniform, call.args[1], call.args[2], call.args[3])
    /\ call.fn = "np.random.triangular" =>
          /\ call.ret =
                TriangularOf(FirstUniform, call.args[1], call.args[3], call.args[2])
          /\ call.ret =
                py_triangular_impl_3(NewCtx(PyInPlaceOfNp, <<>>),
                    <<call.args[1], call.args[3], call.args[2]>>).v
          /\ mem[get_np_state_ptr] =
                py_triangular_impl_3(NewCtx(PyInPlaceOfNp, <<>>),
                    <<call.args[1], call.args[3], call.args[2]>>).c.mem[get_py_state_ptr]

\* np.random.triangular(0.0, 0.5, 1.0) returned the value for low 0.0,
\* high 1.0 and mode 0.5.
C16_Witness ==
    /\ call.fn = "np.random.triangular"
    /\ call.args = <<Q(0), Q(2), Q(4)>>
    /\ call.status = "OK"
    /\ call.ret = F4("triangular_impl_3", FirstUniform, Q(0), Q(4), Q(2))

\* C17: np.random.hypergeometric(ngood, nbad, nsamples) with ngood and
\* nbad >= 0 and 0 <= nsamples <= ngood + nbad draws at most nsamples
\* doubles and returns a count v with
\* max(0, nsamples - nbad) <= v <= min(ngood, nsamples).
C17_HypergeometricBounds ==
    call.fn = "np.random.hypergeometric" =>
        /\ call.status = "OK"
        /\ Len(call.words) <= 2 * call.args[3]
        /\ call.ret.in[1] >= call.args[3] - call.args[2]
        /\ call.ret.in[1] >= 0
        /\ call.ret.in[1] <= Min(call.args[1], call.args[3])

=============================================================================
